---------------------------- MODULE Spec2Model ----------------------------
(***************************************************************************)
(* A model of the Dune Analytics client types of arrakis (src/src/types.rs *)
(* and src/src/error.rs): the ExecutionState enumeration with its          *)
(* predicates and wire tags, the decoding of the service's responses, the  *)
(* ResultOptions builder with to_query_params, and the execution lifecycle *)
(* tracker that polls an execution until it is terminal.                   *)
(*                                                                         *)
(* Three specifications share the module:                                  *)
(*   Spec         the codec: classifying, encoding and decoding values     *)
(*   OptionsSpec  building a ResultOptions and encoding it                 *)
(*   TrackerSpec  one tracking session of one execution                    *)
(***************************************************************************)
EXTENDS Integers, Sequences, FiniteSets, TLC

VARIABLES
    io,         \* codec: the last operation with its input and its output
    opts,       \* options: the ResultOptions value being built
    calls,      \* options: the names of the setters applied, in order
    params,     \* options: the last to_query_params call, input and output
    known,      \* tracker: the handle's known ExecutionState
    pc,         \* tracker: "ready" | "inflight" | "waiting" | "done"
    outcome,    \* tracker: None, or Some(result of tracking)
    polls,      \* tracker: status queries issued so far
    reported,   \* tracker: what the service answered to each status query
    now,        \* tracker: ticks since tracking began
    wakeAt,     \* tracker: the tick at which the current wait ends
    deadline,   \* tracker: the caller's deadline, in ticks
    interval,   \* tracker: the caller's poll interval, in ticks
    cancels,    \* tracker: the cancellation calls made and their results
    returns     \* tracker: what repeated polling after the end returned

codecVars == <<io>>
optionVars == <<opts, calls, params>>
trackerVars == <<known, pc, outcome, polls, reported, now, wakeAt, deadline,
                 interval, cancels, returns>>
vars == <<io, opts, calls, params, known, pc, outcome, polls, reported, now,
          wakeAt, deadline, interval, cancels, returns>>

(***************************************************************************)
(* Option<T> and Result<T, DuneError>.                                     *)
(***************************************************************************)
None == [some |-> FALSE]
Some(v) == [some |-> TRUE, value |-> v]
Ok(v) == [ok |-> TRUE, value |-> v]
Err(e) == [ok |-> FALSE, error |-> e]

(***************************************************************************)
(* DuneError, the variants the model produces.                             *)
(***************************************************************************)
Parse == [kind |-> "Parse"]
ExecutionFailed(message) == [kind |-> "ExecutionFailed", message |-> message]
Timeout(seconds) == [kind |-> "Timeout", seconds |-> seconds]
Cancelled == [kind |-> "Cancelled"]

(***************************************************************************)
(* ExecutionState, its predicates and its serde wire tags.                 *)
(***************************************************************************)
ExecutionState == {"Pending", "Executing", "Completed", "Failed", "Cancelled"}

\* Faulty variant of is_terminal: Cancelled is left out.
is_terminal_no_cancelled(self) == self \in {"Completed", "Failed"}
is_terminal(self) == self \in {"Completed", "Failed", "Cancelled"}

\* Faulty variant of is_success: every terminal state counts.
is_success_any_terminal(self) == self \in {"Completed", "Failed", "Cancelled"}
is_success(self) == self = "Completed"

\* Faulty variant of Serialize: Cancelled shares the tag of Failed.
Serialize_shared_tag(s) ==
    CASE s = "Pending" -> "QUERY_STATE_PENDING"
      [] s = "Executing" -> "QUERY_STATE_EXECUTING"
      [] s = "Completed" -> "QUERY_STATE_COMPLETED"
      [] s = "Failed" -> "QUERY_STATE_FAILED"
      [] s = "Cancelled" -> "QUERY_STATE_FAILED"
Serialize(s) ==
    CASE s = "Pending" -> "QUERY_STATE_PENDING"
      [] s = "Executing" -> "QUERY_STATE_EXECUTING"
      [] s = "Completed" -> "QUERY_STATE_COMPLETED"
      [] s = "Failed" -> "QUERY_STATE_FAILED"
      [] s = "Cancelled" -> "QUERY_STATE_CANCELLED"

Deserialize(tag) ==
    CASE tag = "QUERY_STATE_PENDING" -> Ok("Pending")
      [] tag = "QUERY_STATE_EXECUTING" -> Ok("Executing")
      [] tag = "QUERY_STATE_COMPLETED" -> Ok("Completed")
      [] tag = "QUERY_STATE_FAILED" -> Ok("Failed")
      [] tag = "QUERY_STATE_CANCELLED" -> Ok("Cancelled")
      [] OTHER -> Err(Parse)

(***************************************************************************)
(* Decoding of the service's JSON responses (serde's derived Deserialize). *)
(* A JSON object is a record whose fields are None when the key is absent  *)
(* (or null) and Some(v) otherwise.  A field without #[serde(default)] is  *)
(* required; a number decoded as u64 must not be negative.  The optional   *)
(* pass-through fields (query_id, the timestamps, the byte size and the    *)
(* timings) take no part in any decision and are left out.  Counts range   *)
(* over -1 .. MaxCount, -1 standing for a number that is no u64.           *)
(***************************************************************************)
MaxCount == 2

DecodeU64(n) == IF n >= 0 THEN Ok(n) ELSE Err(Parse)

\* Faulty variant of DecodeExecuteResponse: Pending and Completed swapped.
DecodeExecuteResponse_swapped(p) ==
    IF ~p.execution_id.some \/ ~p.state.some THEN Err(Parse)
    ELSE LET s == Deserialize(p.state.value) IN
         IF ~s.ok THEN s
         ELSE Ok([execution_id |-> p.execution_id.value,
                  state |-> IF s.value = "Pending" THEN "Completed"
                            ELSE IF s.value = "Completed" THEN "Pending"
                            ELSE s.value])
DecodeExecuteResponse(p) ==
    IF ~p.execution_id.some \/ ~p.state.some THEN Err(Parse)
    ELSE LET s == Deserialize(p.state.value) IN
         IF ~s.ok THEN s
         ELSE Ok([execution_id |-> p.execution_id.value, state |-> s.value])

\* Faulty variant of DecodeResultMetadata: the two counts swapped.
DecodeResultMetadata_swapped(m) ==
    IF ~m.column_names.some \/ ~m.total_row_count.some \/ ~m.datapoint_count.some
    THEN Err(Parse)
    ELSE LET t == DecodeU64(m.total_row_count.value)
             d == DecodeU64(m.datapoint_count.value) IN
         IF ~t.ok THEN t
         ELSE IF ~d.ok THEN d
         ELSE Ok([column_names |-> m.column_names.value,
                  total_row_count |-> d.value,
                  datapoint_count |-> t.value])
DecodeResultMetadata(m) ==
    IF ~m.column_names.some \/ ~m.total_row_count.some \/ ~m.datapoint_count.some
    THEN Err(Parse)
    ELSE LET t == DecodeU64(m.total_row_count.value)
             d == DecodeU64(m.datapoint_count.value) IN
         IF ~t.ok THEN t
         ELSE IF ~d.ok THEN d
         ELSE Ok([column_names |-> m.column_names.value,
                  total_row_count |-> t.value,
                  datapoint_count |-> d.value])

DecodeResultData(d) ==
    IF ~d.metadata.some \/ ~d.rows.some THEN Err(Parse)
    ELSE LET m == DecodeResultMetadata(d.metadata.value) IN
         IF ~m.ok THEN m
         ELSE Ok([metadata |-> m.value, rows |-> d.rows.value])

\* Faulty variant of DecodeExecutionResultsResponse: the result is kept only
\* when the state is Completed.
DecodeExecutionResultsResponse_drop_unfinished(p) ==
    IF ~p.execution_id.some \/ ~p.state.some THEN Err(Parse)
    ELSE LET s == Deserialize(p.state.value) IN
         IF ~s.ok THEN s
         ELSE IF ~p.result.some \/ s.value # "Completed"
         THEN Ok([execution_id |-> p.execution_id.value, state |-> s.value,
                  result |-> None])
         ELSE LET r == DecodeResultData(p.result.value) IN
              IF ~r.ok THEN r
              ELSE Ok([execution_id |-> p.execution_id.value,
                       state |-> s.value, result |-> Some(r.value)])
DecodeExecutionResultsResponse(p) ==
    IF ~p.execution_id.some \/ ~p.state.some THEN Err(Parse)
    ELSE LET s == Deserialize(p.state.value) IN
         IF ~s.ok THEN s
         ELSE IF ~p.result.some
         THEN Ok([execution_id |-> p.execution_id.value, state |-> s.value,
                  result |-> None])
         ELSE LET r == DecodeResultData(p.result.value) IN
              IF ~r.ok THEN r
              ELSE Ok([execution_id |-> p.execution_id.value,
                       state |-> s.value, result |-> Some(r.value)])

DecodeCancelExecutionResponse(p) ==
    IF ~p.success.some THEN Err(Parse) ELSE Ok([success |-> p.success.value])

(***************************************************************************)
(* What the service may send.  The client has no say in it: every tag,     *)
(* also one that is no ExecutionState, and every pair of counts.           *)
(***************************************************************************)
WireTags == {"QUERY_STATE_PENDING", "QUERY_STATE_EXECUTING",
             "QUERY_STATE_COMPLETED", "QUERY_STATE_FAILED",
             "QUERY_STATE_CANCELLED"}
AnyTags == WireTags \cup {"QUERY_STATE_UNKNOWN"}

Opt(S) == {None} \cup {Some(v) : v \in S}

ExecuteResponsePayloads ==
    [execution_id : Opt({"01HZ"}), state : Opt(AnyTags)]

RowsPayloads == {<<>>, <<[c |-> 1]>>, <<[c |-> 1], [c |-> 2]>>}

ResultMetadataPayloads ==
    [column_names : Opt({<<"c">>}),
     total_row_count : Opt(-1 .. MaxCount),
     datapoint_count : Opt(-1 .. MaxCount)]

ResultDataPayloads ==
    [metadata : Opt(ResultMetadataPayloads), rows : Opt(RowsPayloads)]

ExecutionResultsPayloads ==
    [execution_id : {Some("01HZ")}, state : Opt(AnyTags),
     result : Opt(ResultDataPayloads)]

(***************************************************************************)
(* The codec specification: each action applies one operation of types.rs  *)
(* to one input and records the input with the output in io.               *)
(***************************************************************************)
Classify ==
    /\ \E s \in ExecutionState :
            io' = [op |-> "classify", state |-> s,
                   terminal |-> is_terminal(s), success |-> is_success(s)]
    /\ UNCHANGED <<optionVars, trackerVars>>

EncodeState ==
    /\ \E s \in ExecutionState :
            io' = [op |-> "encode", state |-> s, tag |-> Serialize(s),
                   back |-> Deserialize(Serialize(s))]
    /\ UNCHANGED <<optionVars, trackerVars>>

DecodeTag ==
    /\ \E t \in AnyTags :
            LET r == Deserialize(t) IN
            io' = [op |-> "decode", tag |-> t, state |-> r,
                   back |-> IF r.ok THEN Some(Serialize(r.value)) ELSE None]
    /\ UNCHANGED <<optionVars, trackerVars>>

DecodeSubmit ==
    /\ \E p \in ExecuteResponsePayloads :
            io' = [op |-> "submit", payload |-> p,
                   result |-> DecodeExecuteResponse(p)]
    /\ UNCHANGED <<optionVars, trackerVars>>

DecodeResults ==
    /\ \E p \in ExecutionResultsPayloads :
            io' = [op |-> "results", payload |-> p,
                   result |-> DecodeExecutionResultsResponse(p)]
    /\ UNCHANGED <<optionVars, trackerVars>>

CodecNext ==
    \/ Classify
    \/ EncodeState
    \/ DecodeTag
    \/ DecodeSubmit
    \/ DecodeResults

(***************************************************************************)
(* ResultOptions: the builder methods and to_query_params.                 *)
(***************************************************************************)
new == [limit |-> None, offset |-> None, sort_by |-> None, order |-> None,
        columns |-> None, filters |-> None]

limit(self, n) == [self EXCEPT !.limit = Some(n)]
offset(self, n) == [self EXCEPT !.offset = Some(n)]
sort_by(self, column) == [self EXCEPT !.sort_by = Some(column)]
order(self, o) == [self EXCEPT !.order = Some(o)]
columns(self, cols) == [self EXCEPT !.columns = Some(cols)]
\* filters has no builder method: it is a public field, assigned directly.
set_filters(self, f) == [self EXCEPT !.filters = Some(f)]

\* u32::to_string: the decimal digits, most significant first.
Digit(d) ==
    CASE d = 0 -> "0" [] d = 1 -> "1" [] d = 2 -> "2" [] d = 3 -> "3"
      [] d = 4 -> "4" [] d = 5 -> "5" [] d = 6 -> "6" [] d = 7 -> "7"
      [] d = 8 -> "8" [] d = 9 -> "9"

RECURSIVE to_string(_)
to_string(n) ==
    IF n < 10 THEN Digit(n) ELSE to_string(n \div 10) \o Digit(n % 10)

\* [String]::join: the elements with sep between each two of them.
RECURSIVE join(_, _)
join(v, sep) ==
    IF Len(v) = 0 THEN ""
    ELSE IF Len(v) = 1 THEN v[1]
    ELSE v[1] \o sep \o join(Tail(v), sep)

Push(p, cond, key, value) == IF cond THEN Append(p, <<key, value>>) ELSE p

\* Faulty variant of to_query_params: order is pushed before sort_by.
to_query_params_order_first(self) ==
    LET p1 == Push(<<>>, self.limit.some, "limit",
                   IF self.limit.some THEN to_string(self.limit.value) ELSE "")
        p2 == Push(p1, self.offset.some, "offset",
                   IF self.offset.some THEN to_string(self.offset.value) ELSE "")
        p3 == Push(p2, self.order.some, "order",
                   IF self.order.some THEN self.order.value ELSE "")
        p4 == Push(p3, self.sort_by.some, "sort_by",
                   IF self.sort_by.some THEN self.sort_by.value ELSE "")
        p5 == Push(p4, self.columns.some, "columns",
                   IF self.columns.some THEN join(self.columns.value, ",") ELSE "")
    IN  Push(p5, self.filters.some, "filters",
             IF self.filters.some THEN self.filters.value ELSE "")
to_query_params(self) ==
    LET p1 == Push(<<>>, self.limit.some, "limit",
                   IF self.limit.some THEN to_string(self.limit.value) ELSE "")
        p2 == Push(p1, self.offset.some, "offset",
                   IF self.offset.some THEN to_string(self.offset.value) ELSE "")
        p3 == Push(p2, self.sort_by.some, "sort_by",
                   IF self.sort_by.some THEN self.sort_by.value ELSE "")
        p4 == Push(p3, self.order.some, "order",
                   IF self.order.some THEN self.order.value ELSE "")
        p5 == Push(p4, self.columns.some, "columns",
                   IF self.columns.some THEN join(self.columns.value, ",") ELSE "")
    IN  Push(p5, self.filters.some, "filters",
             IF self.filters.some THEN self.filters.value ELSE "")

(***************************************************************************)
(* The options specification.  calls lists the options now set, in the     *)
(* order in which their current values were assigned.                      *)
(***************************************************************************)
Limits == {10, 125}
Offsets == {0, 5}
SortColumns == {"ts"}
Orders == {"asc", "desc"}
ColumnLists == {<<>>, <<"a">>, <<"a", "b">>}
Filters == {"x > 1"}

Called(name) == Append(SelectSeq(calls, LAMBDA c : c # name), name)

New ==
    /\ opts' = new /\ calls' = <<>> /\ params' = None
    /\ UNCHANGED <<codecVars, trackerVars>>

SetLimit ==
    /\ params = None
    /\ \E n \in Limits : opts' = limit(opts, n)
    /\ calls' = Called("limit")
    /\ UNCHANGED <<params, codecVars, trackerVars>>

SetOffset ==
    /\ params = None
    /\ \E n \in Offsets : opts' = offset(opts, n)
    /\ calls' = Called("offset")
    /\ UNCHANGED <<params, codecVars, trackerVars>>

SetSortBy ==
    /\ params = None
    /\ \E c \in SortColumns : opts' = sort_by(opts, c)
    /\ calls' = Called("sort_by")
    /\ UNCHANGED <<params, codecVars, trackerVars>>

SetOrder ==
    /\ params = None
    /\ \E o \in Orders : opts' = order(opts, o)
    /\ calls' = Called("order")
    /\ UNCHANGED <<params, codecVars, trackerVars>>

SetColumns ==
    /\ params = None
    /\ \E c \in ColumnLists : opts' = columns(opts, c)
    /\ calls' = Called("columns")
    /\ UNCHANGED <<params, codecVars, trackerVars>>

SetFilters ==
    /\ params = None
    /\ \E f \in Filters : opts' = set_filters(opts, f)
    /\ calls' = Called("filters")
    /\ UNCHANGED <<params, codecVars, trackerVars>>

ToQueryParams ==
    /\ params = None
    /\ params' = Some([input |-> opts, output |-> to_query_params(opts)])
    /\ UNCHANGED <<opts, calls, codecVars, trackerVars>>

OptionsNext ==
    \/ New
    \/ SetLimit
    \/ SetOffset
    \/ SetSortBy
    \/ SetOrder
    \/ SetColumns
    \/ SetFilters
    \/ ToQueryParams

(***************************************************************************)
(* The lifecycle tracker (spec section 4.2).  One tracking session of one  *)
(* execution: issue a status query, decode the answer, stop on a terminal  *)
(* state, otherwise check the deadline, wait the interval, check the       *)
(* deadline again and poll again.  The service answers every query with    *)
(* any state it likes.  Time is counted in ticks, TicksPerSecond to the    *)
(* second; it passes while a query is in flight and while the tracker      *)
(* waits.  The caller may ask for cancellation at any time.                *)
(*                                                                         *)
(* ExecutionStatusResponse declares no field for a failure message: the    *)
(* service's reply carries it beside the status.  A session starts from a  *)
(* handle in state Pending or Executing.                                   *)
(***************************************************************************)
MaxDeadline == 3
MaxInterval == 2
MaxTime == 6
MaxCancels == 1
MaxRepolls == 2
TicksPerSecond == 2

Request == [kind |-> "Request"]

Messages == {"syntax error", "out of memory"}

DecodeExecutionStatusResponse(p) ==
    IF ~p.execution_id.some \/ ~p.state.some THEN Err(Parse)
    ELSE LET s == Deserialize(p.state.value) IN
         IF ~s.ok THEN s
         ELSE Ok([execution_id |-> p.execution_id.value, state |-> s.value,
                  queue_position |-> p.queue_position])

StatusPayloads ==
    [execution_id : {Some("01HZ")}, state : Opt(AnyTags),
     queue_position : Opt({0, 4})]

\* A reply of the service to a status query: the status and, with a Failed
\* status, the failure message ("" when there is none).
StatusReplies ==
    {r \in [status : StatusPayloads, message : Messages \cup {""}] :
        r.message # "" => r.status.state = Some("QUERY_STATE_FAILED")}

CancelPayloads == [success : Opt(BOOLEAN)]

\* The tracker as a function of the latest status: stop with a result, or wait.
NextAction(state, message) ==
    IF is_terminal(state)
    THEN [stop |-> TRUE,
          result |-> IF is_success(state) THEN Ok(state)
                     ELSE IF state = "Failed" THEN Err(ExecutionFailed(message))
                     ELSE Err(Cancelled)]
    ELSE [stop |-> FALSE]

\* Faulty variant of DeadlineExceeded: the deadline is never enforced.
DeadlineExceeded_never(elapsed, max) == FALSE
DeadlineExceeded(elapsed, max) == elapsed > max

\* Duration::as_secs: whole seconds, rounded down.
Seconds(elapsed) == elapsed \div TicksPerSecond

\* Faulty variant of AfterCancel: a successful acknowledgment ends tracking
\* as Cancelled.
AfterCancel_synthesized(trk, ack) ==
    IF ack.ok /\ ack.value.success
    THEN [known |-> "Cancelled", pc |-> "done", outcome |-> Some(Err(Cancelled))]
    ELSE trk
\* A cancellation acknowledgment leaves the tracker as it is.
AfterCancel(trk, ack) == trk

\* Polling again after a terminal state: the same outcome, no remote call.
PollAgain(trk) == trk

IssuePoll ==
    /\ pc = "ready"
    /\ polls' = polls + 1
    /\ pc' = "inflight"
    /\ UNCHANGED <<known, outcome, reported, now, wakeAt, deadline, interval,
                   cancels, returns,
                   codecVars, optionVars>>

Tick ==
    /\ pc \in {"inflight", "waiting"}
    /\ now < MaxTime
    /\ now' = now + 1
    /\ UNCHANGED <<known, pc, outcome, polls, reported, wakeAt, deadline,
                   interval, cancels, returns,
                   codecVars, optionVars>>

ReceiveStatus ==
    /\ pc = "inflight"
    /\ \E reply \in StatusReplies :
         LET p == reply.status
             r == DecodeExecutionStatusResponse(p) IN
         /\ reported' = Append(reported, [state |-> p.state,
                                          message |-> reply.message])
         /\ IF ~r.ok
            THEN /\ outcome' = Some(r)
                 /\ pc' = "done"
                 /\ UNCHANGED <<known, wakeAt>>
            ELSE LET act == NextAction(r.value.state, reply.message) IN
                 /\ known' = r.value.state
                 /\ IF act.stop
                    THEN /\ outcome' = Some(act.result)
                         /\ pc' = "done"
                         /\ UNCHANGED wakeAt
                    ELSE IF DeadlineExceeded(now, deadline)
                    THEN /\ outcome' = Some(Err(Timeout(Seconds(now))))
                         /\ pc' = "done"
                         /\ UNCHANGED wakeAt
                    ELSE /\ pc' = "waiting"
                         /\ wakeAt' = now + interval
                         /\ UNCHANGED outcome
    /\ UNCHANGED <<polls, now, deadline, interval, cancels, returns,
                   codecVars, optionVars>>

TransportFailure ==
    /\ pc = "inflight"
    /\ outcome' = Some(Err(Request))
    /\ pc' = "done"
    /\ UNCHANGED <<known, polls, reported, now, wakeAt, deadline, interval,
                   cancels, returns,
                   codecVars, optionVars>>

Wake ==
    /\ pc = "waiting"
    /\ now >= wakeAt
    /\ IF DeadlineExceeded(now, deadline)
       THEN /\ outcome' = Some(Err(Timeout(Seconds(now))))
            /\ pc' = "done"
       ELSE /\ pc' = "ready"
            /\ UNCHANGED outcome
    /\ UNCHANGED <<known, polls, reported, now, wakeAt, deadline, interval,
                   cancels, returns,
                   codecVars, optionVars>>

RequestCancel ==
    /\ Len(cancels) < MaxCancels
    /\ \E p \in CancelPayloads :
         LET ack == DecodeCancelExecutionResponse(p)
             trk == AfterCancel([known |-> known, pc |-> pc,
                                 outcome |-> outcome], ack) IN
         /\ cancels' = Append(cancels, [ack |-> ack, atPoll |-> polls,
                                        atEnd |-> pc = "done"])
         /\ known' = trk.known
         /\ pc' = trk.pc
         /\ outcome' = trk.outcome
    /\ UNCHANGED <<polls, reported, now, wakeAt, deadline, interval, returns,
                   codecVars, optionVars>>

Repoll ==
    /\ pc = "done"
    /\ is_terminal(known)
    /\ Len(returns) < MaxRepolls
    /\ LET trk == PollAgain([known |-> known, outcome |-> outcome,
                             polls |-> polls]) IN
       /\ known' = trk.known
       /\ outcome' = trk.outcome
       /\ polls' = trk.polls
       /\ returns' = Append(returns, trk.outcome.value)
    /\ UNCHANGED <<pc, reported, now, wakeAt, deadline, interval, cancels,
                   codecVars, optionVars>>

TrackerNext ==
    \/ IssuePoll
    \/ Tick
    \/ ReceiveStatus
    \/ TransportFailure
    \/ Wake
    \/ RequestCancel
    \/ Repoll

(***************************************************************************)
(* The three specifications.  Each leaves the other two parts at rest.     *)
(***************************************************************************)
Idle ==
    /\ known = "Pending" /\ pc = "ready" /\ outcome = None /\ polls = 0
    /\ reported = <<>> /\ now = 0 /\ wakeAt = 0 /\ deadline = 1
    /\ interval = 1 /\ cancels = <<>> /\ returns = <<>>

Init ==
    /\ io = [op |-> "none"]
    /\ opts = new /\ calls = <<>> /\ params = None
    /\ Idle
Next == CodecNext
Spec == Init /\ [][Next]_vars

OptionsSpec == Init /\ [][OptionsNext]_vars

TrackerInit ==
    /\ io = [op |-> "none"]
    /\ opts = new /\ calls = <<>> /\ params = None
    /\ known \in {"Pending", "Executing"}
    /\ pc = "ready"
    /\ outcome = None
    /\ polls = 0
    /\ reported = <<>>
    /\ now = 0
    /\ wakeAt = 0
    /\ deadline \in 1 .. MaxDeadline
    /\ interval \in 1 .. MaxInterval
    /\ cancels = <<>>
    /\ returns = <<>>
TrackerSpec == TrackerInit /\ [][TrackerNext]_vars

(***************************************************************************)
(* Properties of the codec (checked under Spec).                           *)
(***************************************************************************)
TagTable ==
    {<<"Pending", "QUERY_STATE_PENDING">>,
     <<"Executing", "QUERY_STATE_EXECUTING">>,
     <<"Completed", "QUERY_STATE_COMPLETED">>,
     <<"Failed", "QUERY_STATE_FAILED">>,
     <<"Cancelled", "QUERY_STATE_CANCELLED">>}

\* C1: for every ExecutionState s, is_terminal(s) is true exactly when s is
\* Completed, Failed or Cancelled, and is_success(s) exactly when s is
\* Completed.
C1_Predicates ==
    io.op = "classify" =>
        /\ (io.terminal <=> io.state \in {"Completed", "Failed", "Cancelled"})
        /\ (io.success <=> io.state = "Completed")

C1_Witness ==
    io.op = "classify" /\ io.state = "Cancelled" /\ io.terminal /\ ~io.success

\* C10: each state encodes to its own tag of the table, decoding that tag
\* gives the state back, and decoding one of the five tags and encoding the
\* state gives the tag back.
C10_TagsRoundTrip ==
    /\ io.op = "encode" =>
           /\ <<io.state, io.tag>> \in TagTable
           /\ io.back = Ok(io.state)
    /\ (io.op = "decode" /\ io.tag \in {e[2] : e \in TagTable}) =>
           /\ io.state.ok
           /\ <<io.state.value, io.tag>> \in TagTable
           /\ io.back = Some(io.tag)

C10_Witness ==
    /\ io.op = "decode"
    /\ io.tag = "QUERY_STATE_CANCELLED"
    /\ io.state = Ok("Cancelled")
    /\ io.back = Some("QUERY_STATE_CANCELLED")

\* C7 as stated: the handle decoded from a fresh submission's response has
\* state Pending or Executing.
C7_Original ==
    (io.op = "submit" /\ io.result.ok) =>
        io.result.value.state \in {"Pending", "Executing"}

\* C7 as amended: the handle decoded from a fresh submission's response has
\* the state the response's tag names, so it is Pending or Executing exactly
\* when the service answered QUERY_STATE_PENDING or QUERY_STATE_EXECUTING.
C7_HandleStateIsTheTag ==
    (io.op = "submit" /\ io.result.ok) =>
        /\ io.payload.state.some
        /\ <<io.result.value.state, io.payload.state.value>> \in TagTable
        /\ (io.result.value.state \in {"Pending", "Executing"} <=>
              io.payload.state.value \in
                  {"QUERY_STATE_PENDING", "QUERY_STATE_EXECUTING"})

C7_Witness ==
    /\ io.op = "submit"
    /\ io.payload.state = Some("QUERY_STATE_EXECUTING")
    /\ io.result.ok
    /\ io.result.value.state = "Executing"

HoldsResult == io.op = "results" /\ io.result.ok /\ io.result.value.result.some

\* C8 as stated: every decoded ResultMetadata has
\* datapoint_count <= total_row_count.
C8_Original ==
    HoldsResult =>
        LET m == io.result.value.result.value.metadata IN
        m.datapoint_count <= m.total_row_count

\* C8 as amended: a decoded ResultMetadata carries the payload's two counts
\* unchanged, so datapoint_count <= total_row_count holds of it exactly when
\* it holds of the payload.
C8_CountsAreThePayloads ==
    HoldsResult =>
        LET m == io.result.value.result.value.metadata
            w == io.payload.result.value.metadata.value IN
        /\ m.total_row_count = w.total_row_count.value
        /\ m.datapoint_count = w.datapoint_count.value
        /\ m.total_row_count >= 0 /\ m.datapoint_count >= 0
        /\ (m.datapoint_count <= m.total_row_count <=>
              w.datapoint_count.value <= w.total_row_count.value)

C8_Witness ==
    /\ HoldsResult
    /\ io.result.value.result.value.metadata.total_row_count = 2
    /\ io.result.value.result.value.metadata.datapoint_count = 1

\* C9 as stated: a decoded ExecutionResultsResponse holds result rows only
\* when its state is Completed.
C9_Original == HoldsResult => io.result.value.state = "Completed"

\* C9 as amended: a decoded ExecutionResultsResponse holds result rows
\* exactly when the payload carried a result, whatever its state, and the
\* rows are the payload's.
C9_ResultIsThePayloads ==
    (io.op = "results" /\ io.result.ok) =>
        /\ (io.result.value.result.some <=> io.payload.result.some)
        /\ io.result.value.result.some =>
               io.result.value.result.value.rows =
                   io.payload.result.value.rows.value

C9_Witness ==
    /\ HoldsResult
    /\ io.result.value.state = "Completed"
    /\ Len(io.result.value.result.value.rows) = 2

(***************************************************************************)
(* Properties of ResultOptions (checked under OptionsSpec).                *)
(***************************************************************************)
KeyOrder == <<"limit", "offset", "sort_by", "order", "columns", "filters">>
Rank(k) == CHOOSE i \in DOMAIN KeyOrder : KeyOrder[i] = k

\* The expected text of each value the model sets.
ExpectedValue(o, k) ==
    CASE k = "limit" -> (CASE o.limit.value = 10 -> "10"
                           [] o.limit.value = 125 -> "125")
      [] k = "offset" -> (CASE o.offset.value = 0 -> "0"
                            [] o.offset.value = 5 -> "5")
      [] k = "sort_by" -> o.sort_by.value
      [] k = "order" -> o.order.value
      [] k = "columns" -> (CASE o.columns.value = <<>> -> ""
                             [] o.columns.value = <<"a">> -> "a"
                             [] o.columns.value = <<"a", "b">> -> "a,b")
      [] k = "filters" -> o.filters.value

\* C2: to_query_params returns one pair per option that is set and none for
\* an unset one, in the order limit, offset, sort_by, order, columns
\* (joined by commas), filters, whatever order the options were set in.
C2_QueryParams ==
    params.some =>
        LET o == params.value.input
            p == params.value.output IN
        /\ \A i \in DOMAIN p : p[i][1] \in {KeyOrder[j] : j \in DOMAIN KeyOrder}
        /\ \A j \in DOMAIN KeyOrder :
               Cardinality({i \in DOMAIN p : p[i][1] = KeyOrder[j]}) =
                   IF o[KeyOrder[j]].some THEN 1 ELSE 0
        /\ \A i, j \in DOMAIN p : i < j => Rank(p[i][1]) < Rank(p[j][1])
        /\ \A i \in DOMAIN p : p[i][2] = ExpectedValue(o, p[i][1])

C2_Witness ==
    /\ calls = <<"order", "columns", "sort_by", "offset", "limit">>
    /\ params.some
    /\ params.value.output =
           <<<<"limit", "10">>, <<"offset", "5">>, <<"sort_by", "ts">>,
             <<"order", "desc">>, <<"columns", "a,b">>>>

(***************************************************************************)
(* Properties of the tracker (checked under TrackerSpec).                  *)
(***************************************************************************)
IsTerminalReport(r) ==
    /\ r.state.some
    /\ r.state.value \in {"QUERY_STATE_COMPLETED", "QUERY_STATE_FAILED",
                          "QUERY_STATE_CANCELLED"}

FirstTerminal ==
    CHOOSE n \in DOMAIN reported :
        /\ IsTerminalReport(reported[n])
        /\ \A i \in 1 .. n - 1 : ~IsTerminalReport(reported[i])

ExpectedOutcome(r) ==
    CASE r.state.value = "QUERY_STATE_COMPLETED" -> Ok("Completed")
      [] r.state.value = "QUERY_STATE_FAILED" ->
             Err([kind |-> "ExecutionFailed", message |-> r.message])
      [] r.state.value = "QUERY_STATE_CANCELLED" -> Err([kind |-> "Cancelled"])

ReportedTags == [i \in DOMAIN reported |-> reported[i].state]

IsTimeout ==
    outcome.some /\ ~outcome.value.ok /\ outcome.value.error.kind = "Timeout"

C5_NoSynthesizedCancel ==
    /\ []((outcome = Some(Err([kind |-> "Cancelled"]))) =>
            /\ reported # <<>>
            /\ reported[Len(reported)].state = Some("QUERY_STATE_CANCELLED"))
    /\ [][cancels' # cancels =>
            (known' = known /\ pc' = pc /\ outcome' = outcome /\ polls' = polls)]_vars

C5_Witness ==
    /\ Len(cancels) = 1
    /\ cancels[1].ack = Ok([success |-> TRUE])
    /\ cancels[1].atPoll = 0
    /\ ReportedTags = <<Some("QUERY_STATE_EXECUTING"), Some("QUERY_STATE_EXECUTING"),
                        Some("QUERY_STATE_CANCELLED")>>
    /\ polls = 3
    /\ outcome = Some(Err([kind |-> "Cancelled"]))

\* C6: once the known state is terminal it never changes again, whatever
\* polls or cancellation requests follow, and polling again returns the same
\* outcome without another status query.
C6_TerminalIsFinal ==
    [][(known \in {"Completed", "Failed", "Cancelled"}) =>
          (/\ known' = known
           /\ outcome' = outcome
           /\ polls' = polls
           /\ reported' = reported
           /\ \A i \in DOMAIN returns' : returns'[i] = outcome.value)]_vars

C6_Witness ==
    /\ known = "Failed"
    /\ Len(returns) = 2
    /\ Len(cancels) = 1
    /\ cancels[1].atEnd
    /\ polls = Len(reported)

=============================================================================
